---- MODULE Spec2Model ----
(***************************************************************************)
(* Model of the embeddable-URL utilities of src/SettingsPageClient.tsx     *)
(* (isYouTubeUrl .. isVegaLiteSpec, lines 430-691).                        *)
(*                                                                         *)
(* The functions are pure: the state machine draws an input string (a head *)
(* followed by up to MaxParts parts of one input family) and applies one   *)
(* exported function to it.  Strings are TLA+ strings, read one character  *)
(* at a time with SubSeq; the regular expressions of the source are kept   *)
(* as pattern values and run by a backtracking matcher that follows the    *)
(* ECMAScript rules the patterns use (leftmost start, greedy quantifiers,  *)
(* alternatives in order, capture groups undefined when not taken).        *)
(*                                                                         *)
(* The same file holds the settings page, SettingsPageContent (lines       *)
(* 43-423).  Its preference and account-deletion state is modelled by a    *)
(* second state machine, SettingsSpec: the mount effects, the load of the  *)
(* stored preferences, the debounced auto-save, the save button and the    *)
(* delete-account dialog.  Requests in flight are state; the server's      *)
(* answers and the user's input are drawn from small sets.  Each of the    *)
(* two machines leaves the other's variables as they were constructed.     *)
(***************************************************************************)
EXTENDS Integers, Sequences, FiniteSets, TLC

VARIABLES family, url, parts, call, ret, threw

(* The settings page: the component's state (lines 46-62), the user of the *)
(* auth context, the two localStorage keys it writes, the position of      *)
(* loadPreferences, the pending auto-save timeout, the PUT and DELETE      *)
(* requests in flight, the last toast, and the browser's location.         *)
VARIABLES mockUser, autoSaveConversations, language, defaultModel, isSaving,
          isLoadingPreferences, showDeleteConfirm, deleteConfirmation, isDeleting,
          storedModel, storedTheme, load, timer, puts, deletes, toast, signedOut,
          location, edits

urlVars == <<family, url, parts, call, ret, threw>>

pageVars ==
    <<mockUser, autoSaveConversations, language, defaultModel, isSaving,
      isLoadingPreferences, showDeleteConfirm, deleteConfirmation, isDeleting,
      storedModel, storedTheme, load, timer, puts, deletes, toast, signedOut,
      location, edits>>

vars == <<urlVars, pageVars>>

(* Number of parts appended to the head of an input. *)
MaxParts == 2

(* Number of changes the user makes to the preference controls. *)
MaxEdits == 1

(* Number of requests of one kind that are in flight at a time. *)
MaxInFlight == 1

-----------------------------------------------------------------------------
(* Characters and character classes                                        *)

(* The character of s at position i; "" past the end. *)
CharAt(s, i) == IF 1 <= i /\ i <= Len(s) THEN SubSeq(s, i, i) ELSE ""

LowerLetters == "abcdefghijklmnopqrstuvwxyz"
UpperLetters == "ABCDEFGHIJKLMNOPQRSTUVWXYZ"
Digits == "0123456789"

CharsOf(s) == {CharAt(s, i) : i \in 1..Len(s)}

Digit == CharsOf(Digits)
Word == CharsOf(LowerLetters) \cup CharsOf(UpperLetters) \cup Digit \cup {"_"}
LineTerminators == {"\n", "\r"}
WordOrDash == Word \cup {"-"}
NonZeroDigit == Digit \ {"0"}
WhiteSpace == {" ", "\t", "\n", "\r"}

(* Membership of one character in a class of the source's patterns:        *)
(* "w" is [\w], "w-" is [\w-], "d" is \d, "?&" is [?&], "." is any         *)
(* character but a line terminator;                                        *)
(* the other classes are those of the JSON grammar.                        *)
InClass(c, cls) ==
    CASE cls = "w"  -> c \in Word
      [] cls = "w-" -> c \in WordOrDash
      [] cls = "d"  -> c \in Digit
      [] cls = "."  -> c # "" /\ c \notin LineTerminators
      [] cls = "?&" -> c \in {"?", "&"}
      [] cls = "1-9" -> c \in NonZeroDigit
      [] cls = "eE" -> c \in {"e", "E"}
      [] cls = "+-" -> c \in {"+", "-"}
      [] cls = "ws" -> c \in WhiteSpace

(* Canonicalisation of the /i flag, on the ASCII letters. *)
ToLower(c) ==
    IF \E i \in 1..Len(UpperLetters) : CharAt(UpperLetters, i) = c
    THEN LET i == CHOOSE j \in 1..Len(UpperLetters) : CharAt(UpperLetters, j) = c
         IN  CharAt(LowerLetters, i)
    ELSE c

(* Two texts of the same length that agree up to letter case. *)
SameIgnoringCase(a, b) ==
    /\ Len(a) = Len(b)
    /\ \A i \in 1..Len(a) : ToLower(CharAt(a, i)) = ToLower(CharAt(b, i))

-----------------------------------------------------------------------------
(* Patterns: a pattern is a sequence of nodes.                             *)

Node(k, str, sub, n) == <<[k |-> k, str |-> str, sub |-> sub, n |-> n]>>

Lit(str)    == Node("lit", str, <<>>, 0)       \* the characters of str
ILit(str)   == Node("ilit", str, <<>>, 0)      \* the same under flag i
Plus(cls)   == Node("plus", cls, <<>>, 0)      \* [cls]+  greedy
Star(cls)   == Node("star", cls, <<>>, 0)      \* [cls]*  greedy
One(cls)    == Node("one", cls, <<>>, 0)       \* [cls]
Opt(sub)    == Node("opt", "", sub, 0)         \* (?:sub)? greedy
Alt(subs)   == Node("alt", "", subs, 0)        \* (?:a|b|..), in order
End         == Node("end", "", <<>>, 0)        \* $ without flag m
Cap(n, sub) == Node("open", "", <<>>, n) \o sub \o Node("close", "", <<>>, n)

(* No group has taken part in the match yet. *)
NoCaps == [n \in 1..4 |-> <<0, 0>>]

NoMatch == [ok |-> FALSE, start |-> 0, end |-> 0, caps |-> NoCaps]

(* Length of the longest run of cls characters of s from position i. *)
RunLen(s, i, cls) ==
    CHOOSE k \in 0..(Len(s) + 1 - i) :
        /\ \A j \in i..(i + k - 1) : InClass(CharAt(s, j), cls)
        /\ (i + k > Len(s) \/ ~InClass(CharAt(s, i + k), cls))

RECURSIVE MatchFrom(_, _, _, _), TryLens(_, _, _, _, _, _), TryAlts(_, _, _, _, _, _)

(* The first way, in the backtracking order, to match pattern re at         *)
(* position i of s; caps holds the groups closed so far.                    *)
MatchFrom(re, s, i, caps) ==
    IF Len(re) = 0 THEN [ok |-> TRUE, start |-> 0, end |-> i, caps |-> caps]
    ELSE
    LET nd   == Head(re)
        rest == Tail(re)
    IN  CASE nd.k = "lit" ->
               IF i + Len(nd.str) - 1 <= Len(s)
                  /\ SubSeq(s, i, i + Len(nd.str) - 1) = nd.str
               THEN MatchFrom(rest, s, i + Len(nd.str), caps)
               ELSE NoMatch
          [] nd.k = "ilit" ->
               IF i + Len(nd.str) - 1 <= Len(s)
                  /\ SameIgnoringCase(SubSeq(s, i, i + Len(nd.str) - 1), nd.str)
               THEN MatchFrom(rest, s, i + Len(nd.str), caps)
               ELSE NoMatch
          [] nd.k = "one" ->
               IF i <= Len(s) /\ InClass(CharAt(s, i), nd.str)
               THEN MatchFrom(rest, s, i + 1, caps)
               ELSE NoMatch
          [] nd.k = "plus" -> TryLens(rest, s, i, RunLen(s, i, nd.str), 1, caps)
          [] nd.k = "star" -> TryLens(rest, s, i, RunLen(s, i, nd.str), 0, caps)
          [] nd.k = "opt" ->
               LET taken == MatchFrom(nd.sub \o rest, s, i, caps)
               IN  IF taken.ok THEN taken ELSE MatchFrom(rest, s, i, caps)
          [] nd.k = "alt" -> TryAlts(nd.sub, 1, rest, s, i, caps)
          [] nd.k = "end" ->
               IF i = Len(s) + 1 THEN MatchFrom(rest, s, i, caps) ELSE NoMatch
          [] nd.k = "open" ->
               MatchFrom(rest, s, i, [caps EXCEPT ![nd.n] = <<i, 0>>])
          [] nd.k = "close" ->
               MatchFrom(rest, s, i, [caps EXCEPT ![nd.n] = <<caps[nd.n][1], i - 1>>])

(* A greedy quantifier: the longest run first, then one character less. *)
TryLens(rest, s, i, k, min, caps) ==
    IF k < min THEN NoMatch
    ELSE LET r == MatchFrom(rest, s, i + k, caps)
         IN  IF r.ok THEN r ELSE TryLens(rest, s, i, k - 1, min, caps)

(* Alternatives are tried left to right. *)
TryAlts(alts, a, rest, s, i, caps) ==
    IF a > Len(alts) THEN NoMatch
    ELSE LET r == MatchFrom(alts[a] \o rest, s, i, caps)
         IN  IF r.ok THEN r ELSE TryAlts(alts, a + 1, rest, s, i, caps)

(* The start positions, in s, of the matches of re. *)
Starts(re, s) == {i \in 1..(Len(s) + 1) : MatchFrom(re, s, i, NoCaps).ok}

(* String.prototype.match with a non-global pattern: the match at the      *)
(* leftmost start position.                                                 *)
Match(re, s) ==
    LET starts == Starts(re, s)
    IN  IF starts = {} THEN NoMatch
        ELSE LET i == CHOOSE a \in starts : \A b \in starts : a <= b
             IN  [MatchFrom(re, s, i, NoCaps) EXCEPT !.start = i]

(* RegExp.prototype.test. *)
Test(re, s) == \E i \in 1..(Len(s) + 1) : MatchFrom(re, s, i, NoCaps).ok

-----------------------------------------------------------------------------
(* Values                                                                  *)

Undefined == [t |-> "undefined"]
Str(x)    == [t |-> "string", v |-> x]
Num(x)    == [t |-> "number", v |-> x]
Bool(x)   == [t |-> "boolean", v |-> x]
(* The null an extractor returns in place of a record. *)
Null      == [t |-> "null", type |-> "null"]

(* match[n]: the text of group n, undefined when the group took no part. *)
Group(m, s, n) ==
    IF m.caps[n][1] = 0 THEN Undefined
    ELSE Str(SubSeq(s, m.caps[n][1], m.caps[n][2]))

DigitValue(c) == (CHOOSE i \in 1..Len(Digits) : CharAt(Digits, i) = c) - 1

RECURSIVE ParseDigits(_, _, _)
ParseDigits(s, i, acc) ==
    IF i <= Len(s) /\ CharAt(s, i) \in Digit
    THEN ParseDigits(s, i + 1, acc * 10 + DigitValue(CharAt(s, i)))
    ELSE acc

(* parseInt(s, 10) on text that starts with a digit: the value of its       *)
(* leading digits.                                                          *)
parseInt(s) == Num(ParseDigits(s, 1, 0))

-----------------------------------------------------------------------------
(* YouTube                                                                 *)

Scheme == Opt(Lit("http") \o Opt(Lit("s")) \o Lit("://"))
Www    == Opt(Lit("www."))

YouTubePatterns == <<
    Scheme \o Www \o Lit("youtube.com/watch?v=") \o Plus("w-"),
    Scheme \o Www \o Lit("youtube.com/v/") \o Plus("w-"),
    Scheme \o Www \o Lit("youtube.com/embed/") \o Plus("w-"),
    Scheme \o Lit("youtu.be/") \o Plus("w-"),
    Scheme \o Www \o Lit("youtube.com/shorts/") \o Plus("w-") >>

isYouTubeUrl(u) == \E p \in 1..Len(YouTubePatterns) : Test(YouTubePatterns[p], u)

(* Mutant: the short-link shape is missing from the alternatives. *)
YouTubeIdPattern_NoShortLink ==
    Alt(<< Lit("youtube.com/watch?v="), Lit("youtube.com/embed/"), Lit("youtube.com/v/"),
           Lit("youtube.com/shorts/") >>)
    \o Cap(1, Plus("w-"))

YouTubeIdPattern ==
    Alt(<< Lit("youtube.com/watch?v="), Lit("youtu.be/"), Lit("youtube.com/embed/"),
           Lit("youtube.com/v/"), Lit("youtube.com/shorts/") >>)
    \o Cap(1, Plus("w-"))

(* Mutant: a parameter is recognised after "?" only. *)
YouTubeListPattern_QuestionOnly == Lit("?") \o Lit("list=") \o Cap(1, Plus("w-"))

YouTubeListPattern == One("?&") \o Lit("list=") \o Cap(1, Plus("w-"))

YouTubeTimePattern ==
    One("?&") \o Alt(<<Lit("t"), Lit("start")>>) \o Lit("=") \o Cap(1, Plus("d"))

extractYouTubeInfo(u) ==
    IF ~isYouTubeUrl(u) THEN Null
    ELSE
    LET match     == Match(YouTubeIdPattern, u)
        videoId   == IF match.ok /\ Group(match, u, 1).t = "string"
                        /\ Group(match, u, 1).v # ""
                     THEN Group(match, u, 1) ELSE Str("")
        listMatch == Match(YouTubeListPattern, u)
        listId    == IF listMatch.ok THEN Group(listMatch, u, 1) ELSE Str("")
        timeMatch == Match(YouTubeTimePattern, u)
        startTime == IF timeMatch.ok THEN parseInt(Group(timeMatch, u, 1).v) ELSE Num(0)
    IN  [type |-> "youtube", videoId |-> videoId, listId |-> listId, startTime |-> startTime]


-----------------------------------------------------------------------------
(* Twitter / X                                                             *)

TwitterHost == Alt(<<Lit("twitter"), Lit("x")>>) \o Lit(".com/")

TwitterPatterns == <<
    Scheme \o Www \o TwitterHost \o Plus("w") \o Lit("/status/") \o Plus("w"),
    Scheme \o Www \o TwitterHost \o Plus("w") \o Lit("/statuses/") \o Plus("w") >>

isTwitterUrl(u) == \E p \in 1..Len(TwitterPatterns) : Test(TwitterPatterns[p], u)

TwitterInfoPattern ==
    TwitterHost \o Cap(1, Plus("w")) \o Lit("/status") \o Opt(Lit("es")) \o Lit("/")
    \o Cap(2, Plus("w"))

extractTwitterInfo(u) ==
    IF ~isTwitterUrl(u) THEN Null
    ELSE LET match == Match(TwitterInfoPattern, u)
         IN  IF match.ok
             THEN [type |-> "twitter", username |-> Group(match, u, 1),
                   tweetId |-> Group(match, u, 2)]
             ELSE Null

-----------------------------------------------------------------------------
(* Reddit                                                                  *)

RedditPattern ==
    Scheme \o Www \o Lit("reddit.com/r/") \o Plus("w-") \o Lit("/comments/") \o Plus("w")

isRedditUrl(u) == Test(RedditPattern, u)

(* The pattern of extractRedditInfo without its slug group. *)
RedditInfoPattern_NoSlug ==
    Lit("reddit.com/r/") \o Cap(1, Plus("w-")) \o Lit("/comments/") \o Cap(2, Plus("w"))
    \o Opt(Lit("/") \o Cap(3, Plus("w")))

RedditInfoPattern ==
    Lit("reddit.com/r/") \o Cap(1, Plus("w-")) \o Lit("/comments/") \o Cap(2, Plus("w"))
    \o Opt(Lit("/") \o Plus("w-")) \o Opt(Lit("/") \o Cap(3, Plus("w")))

extractRedditInfo(u) ==
    IF ~isRedditUrl(u) THEN Null
    ELSE LET match == Match(RedditInfoPattern, u)
         IN  IF match.ok
             THEN [type |-> "reddit", subreddit |-> Group(match, u, 1),
                   postId |-> Group(match, u, 2), commentId |-> Group(match, u, 3)]
             ELSE Null

-----------------------------------------------------------------------------
(* Spotify                                                                 *)

SpotifyEntity ==
    Alt(<< Lit("track"), Lit("album"), Lit("playlist"), Lit("artist"), Lit("episode"),
           Lit("show") >>)

SpotifyPattern == Scheme \o Opt(Lit("open.")) \o Lit("spotify.com/") \o Cap(1, SpotifyEntity)

isSpotifyUrl(u) == Test(SpotifyPattern, u)

(* Mutant: the id segment may be empty ([\w]* for [\w]+). *)
SpotifyInfoPattern_StarId ==
    Lit("spotify.com/") \o Cap(1, SpotifyEntity) \o Lit("/") \o Cap(2, Star("w"))

SpotifyInfoPattern ==
    Lit("spotify.com/") \o Cap(1, SpotifyEntity) \o Lit("/") \o Cap(2, Plus("w"))

extractSpotifyInfo(u) ==
    IF ~isSpotifyUrl(u) THEN Null
    ELSE LET match == Match(SpotifyInfoPattern, u)
         IN  IF match.ok
             THEN [type |-> "spotify", entityType |-> Group(match, u, 1),
                   id |-> Group(match, u, 2)]
             ELSE Null

-----------------------------------------------------------------------------
(* GitHub Gist                                                             *)

GistPattern == Scheme \o Lit("gist.github.com/") \o Plus("w-") \o Lit("/") \o Plus("w-")

isGistUrl(u) == Test(GistPattern, u)

(* The pattern of extractGistInfo without its filename group. *)
GistInfoPattern_NoFilename ==
    Lit("gist.github.com/") \o Cap(1, Plus("w-")) \o Lit("/") \o Cap(2, Plus("w-"))
    \o Opt(Lit("/") \o Cap(4, Plus("w")))

GistInfoPattern ==
    Lit("gist.github.com/") \o Cap(1, Plus("w-")) \o Lit("/") \o Cap(2, Plus("w-"))
    \o Opt(Lit("/") \o Cap(3, Plus("w-"))) \o Opt(Lit("/") \o Cap(4, Plus("w")))

extractGistInfo(u) ==
    IF ~isGistUrl(u) THEN Null
    ELSE LET match == Match(GistInfoPattern, u)
         IN  IF match.ok
             THEN [type |-> "gist", username |-> Group(match, u, 1),
                   gistId |-> Group(match, u, 2), filename |-> Group(match, u, 3),
                   revision |-> Group(match, u, 4)]
             ELSE Null

-----------------------------------------------------------------------------
(* PDF                                                                     *)

(* Mutant: the i flag is missing. *)
PdfPattern_CaseSensitive == Lit(".pdf") \o Opt(Cap(1, Lit("?") \o Star("."))) \o End

PdfPattern == ILit(".pdf") \o Opt(Cap(1, ILit("?") \o Star("."))) \o End

isPdfUrl(u) == Test(PdfPattern, u)

-----------------------------------------------------------------------------
(* getEmbedType                                                            *)

CodepenPattern == Scheme \o Lit("codepen.io/") \o Plus("w-") \o Lit("/pen/") \o Plus("w-")
CodesandboxPattern == Scheme \o Lit("codesandbox.io/s/") \o Plus("w-")
FigmaPattern == Scheme \o Www \o Lit("figma.com/file/") \o Plus("w-")

(* Mutant: the suffix test of isPdfUrl is made first. *)
getEmbedType_PdfFirst(u) ==
    IF isPdfUrl(u) THEN Str("pdf")
    ELSE IF isYouTubeUrl(u) THEN Str("youtube")
    ELSE IF isTwitterUrl(u) THEN Str("twitter")
    ELSE IF isRedditUrl(u) THEN Str("reddit")
    ELSE IF isSpotifyUrl(u) THEN Str("spotify")
    ELSE IF isGistUrl(u) THEN Str("gist")
    ELSE IF Test(CodepenPattern, u) THEN Str("codepen")
    ELSE IF Test(CodesandboxPattern, u) THEN Str("codesandbox")
    ELSE IF Test(FigmaPattern, u) THEN Str("figma")
    ELSE Null

getEmbedType(u) ==
    IF isYouTubeUrl(u) THEN Str("youtube")
    ELSE IF isTwitterUrl(u) THEN Str("twitter")
    ELSE IF isRedditUrl(u) THEN Str("reddit")
    ELSE IF isSpotifyUrl(u) THEN Str("spotify")
    ELSE IF isGistUrl(u) THEN Str("gist")
    ELSE IF isPdfUrl(u) THEN Str("pdf")
    ELSE IF Test(CodepenPattern, u) THEN Str("codepen")
    ELSE IF Test(CodesandboxPattern, u) THEN Str("codesandbox")
    ELSE IF Test(FigmaPattern, u) THEN Str("figma")
    ELSE Null

-----------------------------------------------------------------------------
(* JSON.parse                                                              *)
(* The grammar of ECMA-404, except inside strings: a string of the model   *)
(* holds no backslash escape (the inputs hold no backslash).               *)

JsonNumberPattern ==
    Opt(Lit("-")) \o Alt(<<Lit("0"), One("1-9") \o Star("d")>>)
    \o Opt(Lit(".") \o Plus("d")) \o Opt(One("eE") \o Opt(One("+-")) \o Plus("d"))

ParseFail == [ok |-> FALSE, v |-> Undefined, next |-> 0]
Parsed(v, next) == [ok |-> TRUE, v |-> v, next |-> next]

SkipWs(s, i) == i + RunLen(s, i, "ws")

(* A string token opening at position i: the text up to the next quote,    *)
(* which must hold no control character.                                    *)
ParseString(s, i) ==
    IF CharAt(s, i) # "\"" \/ ~ \E j \in (i + 1)..Len(s) : CharAt(s, j) = "\""
    THEN ParseFail
    ELSE LET close == CHOOSE j \in (i + 1)..Len(s) :
                          /\ CharAt(s, j) = "\""
                          /\ \A k \in (i + 1)..(j - 1) : CharAt(s, k) # "\""
             text  == SubSeq(s, i + 1, close - 1)
         IN  IF \E k \in 1..Len(text) : CharAt(text, k) \in {"\n", "\r", "\t", "\\"}
             THEN ParseFail
             ELSE Parsed(Str(text), close + 1)

ParseLiteral(s, i, word, v) ==
    IF i + Len(word) - 1 <= Len(s) /\ SubSeq(s, i, i + Len(word) - 1) = word
    THEN Parsed(v, i + Len(word))
    ELSE ParseFail

ParseNumber(s, i) ==
    LET m == MatchFrom(JsonNumberPattern, s, i, NoCaps)
    IN  IF m.ok THEN Parsed(Num(SubSeq(s, i, m.end - 1)), m.end) ELSE ParseFail

RECURSIVE ParseValue(_, _), ParseMembers(_, _, _), ParseElements(_, _, _)

(* value: the JSON value that starts at position i of s. *)
ParseValue(s, i) ==
    LET c == CharAt(s, i)
    IN  CASE c = "{" ->
               IF CharAt(s, SkipWs(s, i + 1)) = "}"
               THEN Parsed([t |-> "object", v |-> <<>>], SkipWs(s, i + 1) + 1)
               ELSE ParseMembers(s, SkipWs(s, i + 1), <<>>)
          [] c = "[" ->
               IF CharAt(s, SkipWs(s, i + 1)) = "]"
               THEN Parsed([t |-> "array", v |-> <<>>], SkipWs(s, i + 1) + 1)
               ELSE ParseElements(s, SkipWs(s, i + 1), <<>>)
          [] c = "\"" -> ParseString(s, i)
          [] c = "t" -> ParseLiteral(s, i, "true", Bool(TRUE))
          [] c = "f" -> ParseLiteral(s, i, "false", Bool(FALSE))
          [] c = "n" -> ParseLiteral(s, i, "null", Null)
          [] c = "-" \/ c \in Digit -> ParseNumber(s, i)
          [] OTHER -> ParseFail

(* members: "key" : value, then "," and more members, or "}". *)
ParseMembers(s, i, acc) ==
    LET key   == ParseString(s, i)
        colon == SkipWs(s, key.next)
        val   == ParseValue(s, SkipWs(s, colon + 1))
        after == SkipWs(s, val.next)
        more  == Append(acc, [key |-> key.v.v, val |-> val.v])
    IN  IF ~key.ok \/ CharAt(s, colon) # ":" THEN ParseFail
        ELSE IF ~val.ok THEN ParseFail
        ELSE IF CharAt(s, after) = "," THEN ParseMembers(s, SkipWs(s, after + 1), more)
        ELSE IF CharAt(s, after) = "}" THEN Parsed([t |-> "object", v |-> more], after + 1)
        ELSE ParseFail

(* elements: value, then "," and more elements, or "]". *)
ParseElements(s, i, acc) ==
    LET val   == ParseValue(s, i)
        after == SkipWs(s, val.next)
        more  == Append(acc, val.v)
    IN  IF ~val.ok THEN ParseFail
        ELSE IF CharAt(s, after) = "," THEN ParseElements(s, SkipWs(s, after + 1), more)
        ELSE IF CharAt(s, after) = "]" THEN Parsed([t |-> "array", v |-> more], after + 1)
        ELSE ParseFail

(* The outcome of a call: a returned value, or a thrown error. *)
Return(v) == [threw |-> FALSE, error |-> "", value |-> v]
Throw(e)  == [threw |-> TRUE, error |-> e, value |-> Undefined]

(* JSON.parse(text): the value of the whole text, or a SyntaxError. *)
JSONparse(text) ==
    LET r == ParseValue(text, SkipWs(text, 1))
    IN  IF r.ok /\ SkipWs(text, r.next) = Len(text) + 1
        THEN Return(r.v)
        ELSE Throw("SyntaxError")

-----------------------------------------------------------------------------
(* isVegaLiteSpec                                                          *)

(* obj.key on a parsed JSON value other than null: the value of the last   *)
(* member of that name of an object, undefined on anything else.           *)
Get(obj, key) ==
    IF obj.t = "object" /\ \E k \in 1..Len(obj.v) : obj.v[k].key = key
    THEN LET last == CHOOSE k \in 1..Len(obj.v) :
                         /\ obj.v[k].key = key
                         /\ \A j \in (k + 1)..Len(obj.v) : obj.v[j].key # key
         IN  obj.v[last].val
    ELSE Undefined

(* ToBoolean of a parsed JSON value or undefined. *)
Truthy(x) ==
    CASE x.t = "undefined" -> FALSE
      [] x.t = "null"      -> FALSE
      [] x.t = "boolean"   -> x.v
      [] x.t = "number"    -> \E k \in 1..Len(x.v) : CharAt(x.v, k) \in NonZeroDigit
      [] x.t = "string"    -> x.v # ""
      [] OTHER             -> TRUE

(* String.prototype.includes *)
Includes(hay, needle) ==
    \E i \in 1..(Len(hay) - Len(needle) + 1) : SubSeq(hay, i, i + Len(needle) - 1) = needle

(* The body of the try block, lines 674-686. *)
VegaLiteTry(code) ==
    LET p == JSONparse(code)
    IN  IF p.threw THEN p
        ELSE LET parsed == p.value
             IN  IF parsed.t = "null" THEN Throw("TypeError")
                 ELSE IF Truthy(Get(parsed, "$schema")) /\ Get(parsed, "$schema").t = "string"
                 THEN Return(Bool(Includes(Get(parsed, "$schema").v, "vega-lite")))
                 ELSE LET hasMark == Get(parsed, "mark").t # "undefined"
                          hasDataOrEncoding ==
                              \/ Get(parsed, "data").t # "undefined"
                              \/ Get(parsed, "encoding").t # "undefined"
                      IN  Return(Bool(hasMark /\ hasDataOrEncoding))

(* Mutant: the catch handles the parse failure only. *)
VegaLiteCatch_SyntaxErrorOnly(outcome) ==
    IF outcome.threw /\ outcome.error = "SyntaxError" THEN Return(Bool(FALSE)) ELSE outcome

(* The bare catch of lines 687-690 turns every error into false. *)
VegaLiteCatch(outcome) == IF outcome.threw THEN Return(Bool(FALSE)) ELSE outcome

isVegaLiteSpec(code) == VegaLiteCatch(VegaLiteTry(code))

-----------------------------------------------------------------------------
(* The settings page as constructed                                        *)

NoUser == Undefined

Users == {NoUser, [t |-> "object", id |-> Str("u1")]}

(* mockUser?.id *)
UserId(user) == IF user = NoUser THEN Undefined ELSE user.id

DefaultModel == "openai/gpt-oss-120b"

Languages == {"English", "Hindi"}

Models == {DefaultModel, "other/model"}

(* No auto-save timeout is pending. *)
NoTimer == [armed |-> FALSE]

(* The values a handleSaveSettings closure holds. *)
Closure(user, auto, lang, model) ==
    [user |-> user, autoSaveConversations |-> auto, language |-> lang,
     defaultModel |-> model]

(* The state after the first render, before its effects run, for the user  *)
(* of the auth context and the 'user_default_model' of localStorage.       *)
PageConstructed(user, saved) ==
    /\ mockUser = user
    /\ autoSaveConversations = Bool(TRUE)
    /\ language = Str("English")
    /\ defaultModel = IF Truthy(saved) THEN saved ELSE Str(DefaultModel)
    /\ isSaving = FALSE
    /\ isLoadingPreferences = TRUE
    /\ showDeleteConfirm = FALSE
    /\ deleteConfirmation = ""
    /\ isDeleting = FALSE
    /\ storedModel = saved
    /\ storedTheme = Str("light")
    /\ load = "constructed"
    /\ timer = NoTimer
    /\ puts = <<>>
    /\ deletes = <<>>
    /\ toast = "none"
    /\ signedOut = FALSE
    /\ location = "/settings"
    /\ edits = 0

-----------------------------------------------------------------------------
(* Inputs: a head, then up to MaxParts parts, of one family.               *)

Families == {"video", "twitter", "reddit", "spotify", "gist", "pdf", "embed", "json"}

Heads == [f \in Families |->
    CASE f = "video" ->
           {"", "https://www.youtube.com/watch?v=xyz", "https://youtu.be/abc123",
            "youtube.com/embed/e-1", "http://youtube.com/v/v_2",
            "www.youtube.com/shorts/s3", "https://youtu.be/"}
      [] f = "twitter" ->
           {"", "https://x.com/alice/status/12345", "https://twitter.com/bob_1/statuses/9",
            "www.twitter.com/bob_1/status", "https://netflix.com/alice/status/12345"}
      [] f = "reddit" ->
           {"", "https://www.reddit.com/r/ask-me/comments/1abc",
            "reddit.com/r/ask-me/comments", "https://example.com/r/pics/comments/9z"}
      [] f = "spotify" ->
           {"", "https://open.spotify.com/track/5F", "https://open.spotify.com/track",
            "spotify.com/album/", "https://open.spotify.com/user/me"}
      [] f = "gist" ->
           {"", "https://gist.github.com/bob/deadbeef", "gist.github.com/bob",
            "https://github.com/bob/deadbeef"}
      [] f = "pdf" ->
           {"", "https://host/file.pdf", "https://host/file.PDF", "https://host/file.Pdf?v=2",
            "https://host/file.pdfx", "https://host/file"}
      [] f = "embed" ->
           {"", "not a url at all", "https://gist.github.com/bob/deadbeef",
            "https://codepen.io/a/pen/b", "https://codesandbox.io/s/a-b",
            "https://www.figma.com/file/Ab1", "https://host/file"}
      [] f = "json" ->
           {"", "not json", "null", "0", "\"vega-lite\"", "[1]", "{",
            "{\"$schema\":\"https://vega.github.io/schema/vega-lite/v5.json\"",
            "{\"$schema\":\"https://example.com/s.json\"", "{\"$schema\":1",
            "{\"mark\":\"bar\"",
            "{\"mark\":\"bar\",\"data\":{}"}]

Parts == [f \in Families |->
    CASE f = "video" ->
           {"?t=90", "&list=PL1", "&start=7s", "?list=", "&t=x", "?u=youtu.be/abc123",
            "&u=youtube.com/watch?v=xyz"}
      [] f = "twitter" -> {"/photo/1", "?s=20", "/status/7", "&u=x.com/a/statuses/3"}
      [] f = "reddit" -> {"/a-slug", "/777", "/v.2", "/", "?x=1"}
      [] f = "spotify" -> {"/5F", "?si=1", "/", "s/me/playlist/37i"}
      [] f = "gist" -> {"/file-name", "/abc123", "/f.py", "/", "#L1"}
      [] f = "pdf" -> {"?v=2", "#page=2", "/more", ".pdf", "\n", "?"}
      [] f = "embed" ->
           {".pdf", "?u=youtu.be/abc", "&u=x.com/a/status/1", "#reddit.com/r/a/comments/1",
            "&u=spotify.com/show/5F", "&u=codesandbox.io/s/a"}
      [] f = "json" ->
           {"}", ",\"mark\":\"bar\"", ",\"encoding\":null", ",\"$schema\":\"\""}]

(* The functions applied to the inputs of a family. *)
Functions == [f \in Families |->
    CASE f = "video"   -> {"isYouTubeUrl", "extractYouTubeInfo"}
      [] f = "twitter" -> {"isTwitterUrl", "extractTwitterInfo"}
      [] f = "reddit"  -> {"isRedditUrl", "extractRedditInfo"}
      [] f = "spotify" -> {"isSpotifyUrl", "extractSpotifyInfo"}
      [] f = "gist"    -> {"isGistUrl", "extractGistInfo"}
      [] f = "pdf"     -> {"isPdfUrl"}
      [] f = "embed"   -> {"getEmbedType"}
      [] f = "json"    -> {"isVegaLiteSpec"}]

-----------------------------------------------------------------------------
(* The state machine: an input is drawn, then one function is applied.     *)

Init ==
    /\ family \in Families
    /\ url \in Heads[family]
    /\ parts = 0
    /\ call = "none"
    /\ ret = Undefined
    /\ threw = FALSE
    /\ PageConstructed(NoUser, Null)

AppendPart ==
    /\ call = "none"
    /\ parts < MaxParts
    /\ \E p \in Parts[family] : url' = url \o p
    /\ parts' = parts + 1
    /\ UNCHANGED <<family, call, ret, threw>>
    /\ UNCHANGED pageVars

(* The call of function name on url completes with outcome. *)
Completes(name, outcome) ==
    /\ call = "none"
    /\ name \in Functions[family]
    /\ call' = name
    /\ ret' = outcome.value
    /\ threw' = outcome.threw
    /\ UNCHANGED <<family, url, parts>>
    /\ UNCHANGED pageVars

CallIsYouTubeUrl       == Completes("isYouTubeUrl", Return(Bool(isYouTubeUrl(url))))
CallExtractYouTubeInfo == Completes("extractYouTubeInfo", Return(extractYouTubeInfo(url)))
CallIsTwitterUrl       == Completes("isTwitterUrl", Return(Bool(isTwitterUrl(url))))
CallExtractTwitterInfo == Completes("extractTwitterInfo", Return(extractTwitterInfo(url)))
CallIsRedditUrl        == Completes("isRedditUrl", Return(Bool(isRedditUrl(url))))
CallExtractRedditInfo  == Completes("extractRedditInfo", Return(extractRedditInfo(url)))
CallIsSpotifyUrl       == Completes("isSpotifyUrl", Return(Bool(isSpotifyUrl(url))))
CallExtractSpotifyInfo == Completes("extractSpotifyInfo", Return(extractSpotifyInfo(url)))
CallIsGistUrl          == Completes("isGistUrl", Return(Bool(isGistUrl(url))))
CallExtractGistInfo    == Completes("extractGistInfo", Return(extractGistInfo(url)))
CallIsPdfUrl           == Completes("isPdfUrl", Return(Bool(isPdfUrl(url))))
CallGetEmbedType       == Completes("getEmbedType", Return(getEmbedType(url)))
CallIsVegaLiteSpec     == Completes("isVegaLiteSpec", isVegaLiteSpec(url))

Next ==
    \/ AppendPart
    \/ CallIsYouTubeUrl
    \/ CallExtractYouTubeInfo
    \/ CallIsTwitterUrl
    \/ CallExtractTwitterInfo
    \/ CallIsRedditUrl
    \/ CallExtractRedditInfo
    \/ CallIsSpotifyUrl
    \/ CallExtractSpotifyInfo
    \/ CallIsGistUrl
    \/ CallExtractGistInfo
    \/ CallIsPdfUrl
    \/ CallGetEmbedType
    \/ CallIsVegaLiteSpec

Spec == Init /\ [][Next]_vars

-----------------------------------------------------------------------------
(* The settings page: effects, requests and handlers                       *)

(* a ?? b *)
Coalesce(a, b) == IF a = Null \/ a = Undefined THEN b ELSE a

(* The sequence q without its element i. *)
Without(q, i) == SubSeq(q, 1, i - 1) \o SubSeq(q, i + 1, Len(q))

(* The page is mounted and has not been left. *)
Mounted == load # "constructed" /\ location = "/settings"

(* The page is rendered in place of its skeleton (lines 308-310). *)
Rendered == Mounted /\ ~isLoadingPreferences

(* The timeout the auto-save effect sets in a render with these values:    *)
(* it holds the handleSaveSettings of that render.                         *)
Armed(auto, lang, model) ==
    [armed |-> TRUE, closure |-> Closure(mockUser, auto, lang, model)]

(* The body handleSaveSettings sends. *)
SaveBody(c) ==
    [auto_save_conversations |-> c.autoSaveConversations, language |-> c.language,
     default_model |-> c.defaultModel]

(* How the GET of the preferences settles: a response, ok or not, or a     *)
(* rejection of fetch.                                                     *)
GetOutcomes == {"ok", "401", "500", "rejects"}

(* What response.json() of the GET settles with: the stored preferences    *)
(* (a key the server leaves out reads as undefined), null, or a rejection. *)
JsonOutcomes ==
    {Return([auto_save_conversations |-> Bool(FALSE), language |-> Str("Hindi"),
             default_model |-> Str("other/model"), theme |-> Str("dark")]),
     Return([auto_save_conversations |-> Bool(TRUE), language |-> Str("English"),
             default_model |-> Str(DefaultModel), theme |-> Str("light")]),
     Return([auto_save_conversations |-> Null, language |-> Null,
             default_model |-> Null, theme |-> Undefined]),
     Return(Null),
     Throw("SyntaxError")}

(* How a PUT or a DELETE settles. *)
SendOutcomes == {"ok", "fails", "rejects"}

(* How signOut() of the auth context settles. *)
SignOutOutcomes == {"resolves", "rejects"}

(* What the user types into the delete dialog. *)
ConfirmationTexts == {"DELETE", "delete", "DELETE "}

(* The effects of the first commit, in the order of their declaration:     *)
(* the load of the preferences up to its first await, the auto-save        *)
(* timeout, the localStorage copy of defaultModel.                         *)
MountEffects ==
    /\ load = "constructed"
    /\ location = "/settings"
    /\ IF ~Truthy(UserId(mockUser))
       THEN isLoadingPreferences' = FALSE /\ load' = "done"
       ELSE isLoadingPreferences' = TRUE /\ load' = "fetching"
    /\ timer' = Armed(autoSaveConversations, language, defaultModel)
    /\ storedModel' = IF Truthy(defaultModel) THEN defaultModel ELSE storedModel
    /\ UNCHANGED <<mockUser, autoSaveConversations, language, defaultModel, isSaving,
                   showDeleteConfirm, deleteConfirmation, isDeleting, storedTheme, puts,
                   deletes, toast, signedOut, location, edits>>
    /\ UNCHANGED urlVars

(* loadPreferences whose answers other than ok and 401 leave the function  *)
(* without its finally block.                                              *)
GetSettles_NoFinally(kind) ==
    /\ load = "fetching"
    /\ location = "/settings"
    /\ CASE kind = "ok"  -> load' = "decoding" /\ UNCHANGED isLoadingPreferences
         [] kind = "401" -> load' = "done" /\ isLoadingPreferences' = FALSE
         [] OTHER        -> load' = "done" /\ UNCHANGED isLoadingPreferences
    /\ UNCHANGED <<mockUser, autoSaveConversations, language, defaultModel, isSaving,
                   showDeleteConfirm, deleteConfirmation, isDeleting, storedModel,
                   storedTheme, timer, puts, deletes, toast, signedOut, location, edits>>
    /\ UNCHANGED urlVars

(* loadPreferences from the settling of fetch to its next await or its     *)
(* end: an ok response is decoded; 401 clears the flag and returns; any    *)
(* other response throws, and a rejection is caught as well; the finally   *)
(* block clears the flag on each way out.                                  *)
GetSettles(kind) ==
    /\ load = "fetching"
    /\ location = "/settings"
    /\ CASE kind = "ok"  -> load' = "decoding" /\ UNCHANGED isLoadingPreferences
         [] kind = "401" -> load' = "done" /\ isLoadingPreferences' = FALSE
         [] OTHER        -> load' = "done" /\ isLoadingPreferences' = FALSE
    /\ UNCHANGED <<mockUser, autoSaveConversations, language, defaultModel, isSaving,
                   showDeleteConfirm, deleteConfirmation, isDeleting, storedModel,
                   storedTheme, timer, puts, deletes, toast, signedOut, location, edits>>
    /\ UNCHANGED urlVars

(* loadPreferences from the settling of response.json() to its end: the    *)
(* three setters, the two localStorage writes, the finally block; then the *)
(* effects of the render that follows.  A rejection, or a property read on *)
(* null, goes to the catch block.                                          *)
JsonSettles(outcome) ==
    /\ load = "decoding"
    /\ location = "/settings"
    /\ load' = "done"
    /\ isLoadingPreferences' = FALSE
    /\ IF outcome.threw \/ outcome.value = Null
       THEN UNCHANGED <<autoSaveConversations, language, defaultModel, storedModel,
                        storedTheme, timer>>
       ELSE LET preferences == outcome.value
                auto  == Coalesce(preferences.auto_save_conversations, Bool(TRUE))
                lang  == Coalesce(preferences.language, Str("English"))
                model == Coalesce(preferences.default_model, Str(DefaultModel))
                cached == IF Truthy(preferences.default_model)
                          THEN preferences.default_model ELSE storedModel
            IN  /\ autoSaveConversations' = auto
                /\ language' = lang
                /\ defaultModel' = model
                /\ storedModel' = IF model # defaultModel /\ Truthy(model)
                                  THEN model ELSE cached
                /\ storedTheme' = IF Truthy(preferences.theme)
                                  THEN preferences.theme ELSE storedTheme
                /\ timer' = IF <<auto, lang, model>>
                               # <<autoSaveConversations, language, defaultModel>>
                            THEN Armed(auto, lang, model) ELSE timer
    /\ UNCHANGED <<mockUser, isSaving, showDeleteConfirm, deleteConfirmation, isDeleting,
                   puts, deletes, toast, signedOut, location, edits>>
    /\ UNCHANGED urlVars

(* The auto-save timeout runs out: handleSaveSettings(true) of the render  *)
(* that set it, up to its fetch.                                           *)
TimerFires ==
    /\ timer.armed
    /\ location = "/settings"
    /\ timer' = NoTimer
    /\ IF ~Truthy(UserId(timer.closure.user))
       THEN UNCHANGED puts
       ELSE /\ Len(puts) < MaxInFlight
            /\ puts' = Append(puts, [isAutoSave |-> TRUE, body |-> SaveBody(timer.closure)])
    /\ UNCHANGED <<mockUser, autoSaveConversations, language, defaultModel, isSaving,
                   isLoadingPreferences, showDeleteConfirm, deleteConfirmation, isDeleting,
                   storedModel, storedTheme, load, deletes, toast, signedOut, location,
                   edits>>
    /\ UNCHANGED urlVars

(* The save button: handleSaveSettings(false) up to its fetch. *)
ClickSave ==
    /\ Rendered
    /\ IF ~Truthy(UserId(mockUser))
       THEN UNCHANGED <<isSaving, puts>>
       ELSE /\ Len(puts) < MaxInFlight
            /\ isSaving' = TRUE
            /\ puts' = Append(puts,
                         [isAutoSave |-> FALSE,
                          body |-> SaveBody(Closure(mockUser, autoSaveConversations,
                                                    language, defaultModel))])
    /\ UNCHANGED <<mockUser, autoSaveConversations, language, defaultModel,
                   isLoadingPreferences, showDeleteConfirm, deleteConfirmation, isDeleting,
                   storedModel, storedTheme, load, timer, deletes, toast, signedOut,
                   location, edits>>
    /\ UNCHANGED urlVars

(* handleSaveSettings from the settling of its fetch to its end. *)
PutSettles(i, outcome) ==
    /\ i \in DOMAIN puts
    /\ location = "/settings"
    /\ puts' = Without(puts, i)
    /\ IF puts[i].isAutoSave
       THEN UNCHANGED <<toast, isSaving>>
       ELSE /\ toast' = IF outcome = "ok" THEN "success" ELSE "error"
            /\ isSaving' = FALSE
    /\ UNCHANGED <<mockUser, autoSaveConversations, language, defaultModel,
                   isLoadingPreferences, showDeleteConfirm, deleteConfirmation, isDeleting,
                   storedModel, storedTheme, load, timer, deletes, signedOut, location,
                   edits>>
    /\ UNCHANGED urlVars

(* A preference control is changed: the setter, then the effects of the    *)
(* render that follows (a new timeout in place of the pending one).        *)
SetAutoSaveConversations(b) ==
    /\ Rendered
    /\ edits < MaxEdits
    /\ Bool(b) # autoSaveConversations
    /\ autoSaveConversations' = Bool(b)
    /\ timer' = Armed(Bool(b), language, defaultModel)
    /\ edits' = edits + 1
    /\ UNCHANGED <<mockUser, language, defaultModel, isSaving, isLoadingPreferences,
                   showDeleteConfirm, deleteConfirmation, isDeleting, storedModel,
                   storedTheme, load, puts, deletes, toast, signedOut, location>>
    /\ UNCHANGED urlVars

SetLanguage(l) ==
    /\ Rendered
    /\ edits < MaxEdits
    /\ Str(l) # language
    /\ language' = Str(l)
    /\ timer' = Armed(autoSaveConversations, Str(l), defaultModel)
    /\ edits' = edits + 1
    /\ UNCHANGED <<mockUser, autoSaveConversations, defaultModel, isSaving,
                   isLoadingPreferences, showDeleteConfirm, deleteConfirmation, isDeleting,
                   storedModel, storedTheme, load, puts, deletes, toast, signedOut,
                   location>>
    /\ UNCHANGED urlVars

SetDefaultModel(m) ==
    /\ Rendered
    /\ edits < MaxEdits
    /\ Str(m) # defaultModel
    /\ defaultModel' = Str(m)
    /\ timer' = Armed(autoSaveConversations, language, Str(m))
    /\ storedModel' = IF Truthy(Str(m)) THEN Str(m) ELSE storedModel
    /\ edits' = edits + 1
    /\ UNCHANGED <<mockUser, autoSaveConversations, language, isSaving,
                   isLoadingPreferences, showDeleteConfirm, deleteConfirmation, isDeleting,
                   storedTheme, load, puts, deletes, toast, signedOut, location>>
    /\ UNCHANGED urlVars

(* onDeleteAccount of the account section. *)
OpenDeleteModal ==
    /\ Rendered
    /\ ~showDeleteConfirm
    /\ showDeleteConfirm' = TRUE
    /\ UNCHANGED <<mockUser, autoSaveConversations, language, defaultModel, isSaving,
                   isLoadingPreferences, deleteConfirmation, isDeleting, storedModel,
                   storedTheme, load, timer, puts, deletes, toast, signedOut, location,
                   edits>>
    /\ UNCHANGED urlVars

(* onClose of the delete dialog. *)
CloseDeleteModal ==
    /\ Rendered
    /\ showDeleteConfirm
    /\ showDeleteConfirm' = FALSE
    /\ deleteConfirmation' = ""
    /\ UNCHANGED <<mockUser, autoSaveConversations, language, defaultModel, isSaving,
                   isLoadingPreferences, isDeleting, storedModel, storedTheme, load, timer,
                   puts, deletes, toast, signedOut, location, edits>>
    /\ UNCHANGED urlVars

(* setDeleteConfirmation of the delete dialog. *)
TypeConfirmation(text) ==
    /\ Rendered
    /\ showDeleteConfirm
    /\ text # deleteConfirmation
    /\ deleteConfirmation' = text
    /\ UNCHANGED <<mockUser, autoSaveConversations, language, defaultModel, isSaving,
                   isLoadingPreferences, showDeleteConfirm, isDeleting, storedModel,
                   storedTheme, load, timer, puts, deletes, toast, signedOut, location,
                   edits>>
    /\ UNCHANGED urlVars

(* handleDeleteAccount that does not look at deleteConfirmation. *)
ConfirmDelete_Unchecked ==
    /\ Rendered
    /\ showDeleteConfirm
    /\ Len(deletes) < MaxInFlight
    /\ isDeleting' = TRUE
    /\ deletes' = Append(deletes, [pc |-> "fetching", response |-> "none"])
    /\ UNCHANGED toast
    /\ UNCHANGED <<mockUser, autoSaveConversations, language, defaultModel, isSaving,
                   isLoadingPreferences, showDeleteConfirm, deleteConfirmation, storedModel,
                   storedTheme, load, timer, puts, signedOut, location, edits>>
    /\ UNCHANGED urlVars

(* onConfirm of the delete dialog: handleDeleteAccount up to its fetch. *)
ConfirmDelete ==
    /\ Rendered
    /\ showDeleteConfirm
    /\ IF deleteConfirmation # "DELETE"
       THEN /\ toast' = "warning"
            /\ UNCHANGED <<isDeleting, deletes>>
       ELSE /\ Len(deletes) < MaxInFlight
            /\ isDeleting' = TRUE
            /\ deletes' = Append(deletes, [pc |-> "fetching", response |-> "none"])
            /\ UNCHANGED toast
    /\ UNCHANGED <<mockUser, autoSaveConversations, language, defaultModel, isSaving,
                   isLoadingPreferences, showDeleteConfirm, deleteConfirmation, storedModel,
                   storedTheme, load, timer, puts, signedOut, location, edits>>
    /\ UNCHANGED urlVars

(* handleDeleteAccount from the settling of its fetch: an ok response goes *)
(* on to handleSignOut and awaits signOut(); any other response throws,    *)
(* and a rejection is caught as well.                                      *)
DeleteSettles(i, outcome) ==
    /\ i \in DOMAIN deletes
    /\ deletes[i].pc = "fetching"
    /\ location = "/settings"
    /\ IF outcome = "ok"
       THEN /\ deletes' = [deletes EXCEPT ![i] = [pc |-> "signingOut", response |-> "ok"]]
            /\ UNCHANGED <<isDeleting, toast>>
       ELSE /\ deletes' = Without(deletes, i)
            /\ isDeleting' = FALSE
            /\ toast' = "error"
    /\ UNCHANGED <<mockUser, autoSaveConversations, language, defaultModel, isSaving,
                   isLoadingPreferences, showDeleteConfirm, deleteConfirmation, storedModel,
                   storedTheme, load, timer, puts, signedOut, location, edits>>
    /\ UNCHANGED urlVars

(* handleSignOut from the settling of signOut(): the redirect; a rejection *)
(* reaches the catch block of handleDeleteAccount.                         *)
SignOutSettles(i, outcome) ==
    /\ i \in DOMAIN deletes
    /\ deletes[i].pc = "signingOut"
    /\ location = "/settings"
    /\ deletes' = Without(deletes, i)
    /\ IF outcome = "resolves"
       THEN /\ signedOut' = TRUE
            /\ location' = "/"
            /\ UNCHANGED <<isDeleting, toast>>
       ELSE /\ isDeleting' = FALSE
            /\ toast' = "error"
            /\ UNCHANGED <<signedOut, location>>
    /\ UNCHANGED <<mockUser, autoSaveConversations, language, defaultModel, isSaving,
                   isLoadingPreferences, showDeleteConfirm, deleteConfirmation, storedModel,
                   storedTheme, load, timer, puts, edits>>
    /\ UNCHANGED urlVars

(* The page is constructed for a user, or for none, with or without a      *)
(* default model kept in localStorage; no utility function is applied.     *)
SettingsInit ==
    /\ family = "none"
    /\ url = ""
    /\ parts = 0
    /\ call = "none"
    /\ ret = Undefined
    /\ threw = FALSE
    /\ \E user \in Users, saved \in {Null, Str("other/model")} : PageConstructed(user, saved)

LoadSettles ==
    \/ \E kind \in GetOutcomes : GetSettles(kind)
    \/ \E outcome \in JsonOutcomes : JsonSettles(outcome)

SettingsNext ==
    \/ MountEffects
    \/ \E kind \in GetOutcomes : GetSettles(kind)
    \/ \E outcome \in JsonOutcomes : JsonSettles(outcome)
    \/ TimerFires
    \/ ClickSave
    \/ \E i \in DOMAIN puts, outcome \in SendOutcomes : PutSettles(i, outcome)
    \/ \E b \in BOOLEAN : SetAutoSaveConversations(b)
    \/ \E l \in Languages : SetLanguage(l)
    \/ \E m \in Models : SetDefaultModel(m)
    \/ OpenDeleteModal
    \/ CloseDeleteModal
    \/ \E text \in ConfirmationTexts : TypeConfirmation(text)
    \/ ConfirmDelete
    \/ \E i \in DOMAIN deletes, outcome \in SendOutcomes : DeleteSettles(i, outcome)
    \/ \E i \in DOMAIN deletes, outcome \in SignOutOutcomes : SignOutSettles(i, outcome)

SettingsSpec == SettingsInit /\ [][SettingsNext]_vars

(* The effects of a commit run, and a pending fetch or response.json()     *)
(* settles, one way or another.                                            *)
SettingsFairSpec ==
    SettingsSpec /\ WF_vars(MountEffects) /\ WF_vars(LoadSettles)

-----------------------------------------------------------------------------
(* Properties                                                              *)

Detectors ==
    {"isYouTubeUrl", "isTwitterUrl", "isRedditUrl", "isSpotifyUrl", "isGistUrl"}

Extractors ==
    {"extractYouTubeInfo", "extractTwitterInfo", "extractRedditInfo", "extractSpotifyInfo",
     "extractGistInfo"}

(* The detector of the kind of extractor c, on input u. *)
DetectorFor(c, u) ==
    CASE c = "extractYouTubeInfo" -> isYouTubeUrl(u)
      [] c = "extractTwitterInfo" -> isTwitterUrl(u)
      [] c = "extractRedditInfo"  -> isRedditUrl(u)
      [] c = "extractSpotifyInfo" -> isSpotifyUrl(u)
      [] c = "extractGistInfo"    -> isGistUrl(u)

(* C1: an extractor returns a record exactly when the detector of its kind *)
(* accepts the same input.                                                 *)
C1_ExtractIffDetect ==
    call \in Extractors => ((ret.type # "null") <=> DetectorFor(call, url))

RequiredFields ==
    [k \in {"youtube", "twitter", "reddit", "spotify", "gist"} |->
        CASE k = "youtube" -> {"videoId"}
          [] k = "twitter" -> {"username", "tweetId"}
          [] k = "reddit"  -> {"subreddit", "postId"}
          [] k = "spotify" -> {"entityType", "id"}
          [] k = "gist"    -> {"username", "gistId"}]

(* C2: an extractor returns null or a record whose required fields are all *)
(* non-empty strings.                                                      *)
C2_RequiredFieldsNonEmpty ==
    (call \in Extractors /\ ret.type # "null") =>
        \A f \in RequiredFields[ret.type] : ret[f].t = "string" /\ ret[f].v # ""

C2_Witness ==
    /\ call = "extractSpotifyInfo"
    /\ url = "https://open.spotify.com/track/5F"
    /\ ret = [type |-> "spotify", entityType |-> Str("track"), id |-> Str("5F")]

(* C3: for a video URL with no list= and no t=/start= parameter the record *)
(* has listId and startTime absent, not "" or 0.                           *)
C3_AbsentOptionalFields ==
    (/\ call = "extractYouTubeInfo"
     /\ ret.type = "youtube"
     /\ ~Includes(url, "list=")
     /\ ~Includes(url, "t=")) =>
        (ret.listId.t = "undefined" /\ ret.startTime.t = "undefined")

(* The host of an absolute http(s) URL: the text between the scheme and    *)
(* the first "/", "?" or "#"; "" when u has no such scheme.                *)
HostOf(u) ==
    LET from == IF Len(u) >= 8 /\ SubSeq(u, 1, 8) = "https://" THEN 9
                ELSE IF Len(u) >= 7 /\ SubSeq(u, 1, 7) = "http://" THEN 8
                ELSE 0
        len  == CHOOSE k \in 0..Len(u) :
                    /\ from + k <= Len(u) + 1
                    /\ \A j \in from..(from + k - 1) : CharAt(u, j) \notin {"/", "?", "#"}
                    /\ (from + k = Len(u) + 1 \/ CharAt(u, from + k) \in {"/", "?", "#"})
    IN  IF from = 0 THEN "" ELSE SubSeq(u, from, from + len - 1)

SupportedHosts ==
    {"youtube.com", "www.youtube.com", "youtu.be", "twitter.com", "www.twitter.com",
     "x.com", "www.x.com", "reddit.com", "www.reddit.com", "spotify.com",
     "open.spotify.com", "gist.github.com"}

(* C4: on a URL whose host is not a supported provider host every detector *)
(* returns false and every extractor returns null.                         *)
C4_UnsupportedHostRejected ==
    (HostOf(url) # "" /\ HostOf(url) \notin SupportedHosts) =>
        /\ call \in Detectors => ret = Bool(FALSE)
        /\ call \in Extractors => ret.type = "null"

(* C5: no call ends in a thrown error; the empty string yields false or    *)
(* null; in isVegaLiteSpec a text that JSON.parse rejects, and a text that *)
(* parses to anything but an object, yield false.                          *)
C5_NeverThrows ==
    call # "none" =>
        /\ ~threw
        /\ url = "" => (ret = Bool(FALSE) \/ ret = Null)
        /\ (call = "isVegaLiteSpec"
            /\ (JSONparse(url).threw \/ JSONparse(url).value.t # "object")) =>
               ret = Bool(FALSE)

C5_Witness ==
    /\ call = "isVegaLiteSpec"
    /\ url = "null"
    /\ ~JSONparse(url).threw
    /\ ret = Bool(FALSE)
    /\ ~threw

(* The detectors of getEmbedType, in its order, with their tags. *)
EmbedTags ==
    <<"youtube", "twitter", "reddit", "spotify", "gist", "pdf", "codepen", "codesandbox",
      "figma">>

Accepts(k, u) ==
    CASE k = 1 -> isYouTubeUrl(u)
      [] k = 2 -> isTwitterUrl(u)
      [] k = 3 -> isRedditUrl(u)
      [] k = 4 -> isSpotifyUrl(u)
      [] k = 5 -> isGistUrl(u)
      [] k = 6 -> isPdfUrl(u)
      [] k = 7 -> Test(CodepenPattern, u)
      [] k = 8 -> Test(CodesandboxPattern, u)
      [] k = 9 -> Test(FigmaPattern, u)

(* C6: getEmbedType returns tag T exactly when T's detector accepts and no *)
(* earlier detector does, and null exactly when no detector accepts.       *)
C6_FirstDetectorWins ==
    call = "getEmbedType" =>
        LET accepted == {k \in 1..Len(EmbedTags) : Accepts(k, url)}
        IN  /\ \A k \in 1..Len(EmbedTags) :
                 (ret = Str(EmbedTags[k])) <=>
                     (k \in accepted /\ \A j \in 1..(k - 1) : j \notin accepted)
            /\ (ret = Null) <=> (accepted = {})

C6_Witness ==
    /\ call = "getEmbedType"
    /\ url = "https://gist.github.com/bob/deadbeef.pdf"
    /\ isPdfUrl(url)
    /\ ret = Str("gist")

(* The five URL shapes of a video, in the order of the alternatives. *)
VideoShapes ==
    <<"youtube.com/watch?v=", "youtu.be/", "youtube.com/embed/", "youtube.com/v/",
      "youtube.com/shorts/">>

(* text occurs in u at position p. *)
OccursAt(u, text, p) ==
    p + Len(text) - 1 <= Len(u) /\ SubSeq(u, p, p + Len(text) - 1) = text

(* The longest run of characters of class cls of u from position p. *)
RunAt(u, p, cls) == SubSeq(u, p, p + RunLen(u, p, cls) - 1)

(* Shape k stands at position p of u, followed by an id character. *)
ShapeAt(u, k, p) ==
    OccursAt(u, VideoShapes[k], p) /\ RunAt(u, p + Len(VideoShapes[k]), "w-") # ""

ShapeIn(u, k) == \E p \in 1..Len(u) : ShapeAt(u, k, p)

(* The ids that follow the occurrences of shape k in u. *)
IdsOfShape(u, k) ==
    {RunAt(u, p + Len(VideoShapes[k]), "w-") : p \in {q \in 1..Len(u) : ShapeAt(u, k, q)}}

(* C7, as claimed: videoId comes from the shape that is first in the order *)
(* of the alternatives among the shapes the input holds.                   *)
C7_PriorityShapeWins ==
    (call = "extractYouTubeInfo" /\ ret.type = "youtube") =>
        LET first == CHOOSE k \in 1..Len(VideoShapes) :
                         ShapeIn(url, k) /\ \A j \in 1..(k - 1) : ~ShapeIn(url, j)
        IN  ret.videoId.v \in IdsOfShape(url, first)

(* C7, amended: videoId is the id that follows the leftmost occurrence of  *)
(* any of the five shapes in the input; no two shapes start at the same    *)
(* position, so the order of the alternatives decides nothing.             *)
C7_LeftmostShapeWins ==
    (call = "extractYouTubeInfo" /\ ret.type = "youtube") =>
        LET at    == {p \in 1..Len(url) : \E k \in 1..Len(VideoShapes) : ShapeAt(url, k, p)}
            left  == CHOOSE p \in at : \A q \in at : p <= q
            shape == CHOOSE k \in 1..Len(VideoShapes) : ShapeAt(url, k, left)
        IN  /\ at # {}
            /\ \A p \in at : Cardinality({k \in 1..Len(VideoShapes) : ShapeAt(url, k, p)}) = 1
            /\ ret.videoId = Str(RunAt(url, left + Len(VideoShapes[shape]), "w-"))

C7_Witness ==
    /\ call = "extractYouTubeInfo"
    /\ url = "https://youtu.be/abc123&u=youtube.com/watch?v=xyz"
    /\ ShapeIn(url, 1)
    /\ ret.videoId = Str("abc123")

(* The positions of u where a parameter of one of the names starts ("?" or *)
(* "&", the name, "=") with a value that begins with a cls character.      *)
ParamsAt(u, names, cls) ==
    {p \in 1..Len(u) :
        /\ CharAt(u, p) \in {"?", "&"}
        /\ \E n \in names :
              /\ OccursAt(u, n \o "=", p + 1)
              /\ RunAt(u, p + Len(n) + 2, cls) # ""}

(* The value, as far as it is made of cls characters, of the first such    *)
(* parameter of u.                                                          *)
FirstParam(u, names, cls) ==
    LET at == ParamsAt(u, names, cls)
        p  == CHOOSE a \in at : \A b \in at : a <= b
        n  == CHOOSE m \in names : OccursAt(u, m \o "=", p + 1)
    IN  RunAt(u, p + Len(n) + 2, cls)

RECURSIVE Decimal(_)
(* The number a text of decimal digits denotes. *)
Decimal(text) ==
    IF text = "" THEN 0
    ELSE 10 * Decimal(SubSeq(text, 1, Len(text) - 1))
         + (CHOOSE d \in 0..9 : CharAt(Digits, d + 1) = CharAt(text, Len(text)))

C9_SchemaStringDecides ==
    (call = "isVegaLiteSpec" /\ ~JSONparse(url).threw /\ JSONparse(url).value.t = "object") =>
        LET parsed == JSONparse(url).value
            schema == Get(parsed, "$schema")
        IN  IF schema.t = "string"
            THEN ret = Bool(Includes(schema.v, "vega-lite"))
            ELSE ret = Bool(/\ Get(parsed, "mark").t # "undefined"
                            /\ \/ Get(parsed, "data").t # "undefined"
                               \/ Get(parsed, "encoding").t # "undefined")

(* u ends with ".pdf" in any letter case. *)
EndsWithPdf(u) == Len(u) >= 4 /\ SameIgnoringCase(SubSeq(u, Len(u) - 3, Len(u)), ".pdf")

(* u holds ".pdf", in any letter case, then "?" and a query that runs to   *)
(* the end of u (a query holds no line terminator).                        *)
PdfThenQuery(u) ==
    \E p \in 1..(Len(u) - 4) :
        /\ SameIgnoringCase(SubSeq(u, p, p + 3), ".pdf")
        /\ CharAt(u, p + 4) = "?"
        /\ \A j \in (p + 5)..Len(u) : CharAt(u, j) \notin LineTerminators

-----------------------------------------------------------------------------
(* Path segments                                                           *)

(* The position behind the path that runs from position p of u: that of    *)
(* the first "?" or "#" from p, or the one behind u.                       *)
PathEnd(u, p) ==
    CHOOSE q \in p..(Len(u) + 1) :
        /\ q = Len(u) + 1 \/ CharAt(u, q) \in {"?", "#"}
        /\ \A j \in p..(q - 1) : CharAt(u, j) \notin {"?", "#"}

(* The positions of the "/" of the path from position p of u. *)
SlashesFrom(u, p) == {q \in p..(PathEnd(u, p) - 1) : CharAt(u, q) = "/"}

(* The texts behind each "/" of the path from position p of u, in order;   *)
(* a "/" that closes the path starts no segment.                           *)
SegmentsFrom(u, p) ==
    LET slashes == {q \in SlashesFrom(u, p) : q + 1 < PathEnd(u, p)}
        nth(k)  == CHOOSE q \in slashes : Cardinality({r \in slashes : r < q}) = k - 1
        stop(q) == CHOOSE e \in (q + 1)..PathEnd(u, p) :
                       /\ e = PathEnd(u, p) \/ CharAt(u, e) = "/"
                       /\ \A j \in (q + 1)..(e - 1) : CharAt(u, j) # "/"
    IN  [k \in 1..Cardinality(slashes) |-> SubSeq(u, nth(k) + 1, stop(nth(k)) - 1)]

(* All characters of text are of class cls. *)
AllOf(text, cls) == \A j \in 1..Len(text) : InClass(CharAt(text, j), cls)

(* The discussion stem reddit.com/r/<community>/comments/<postId> stands   *)
(* at position p of u, its post id running up to a "/" or the path's end.  *)
RedditStemAt(u, p) ==
    LET community == RunAt(u, p + 13, "w-")
        q         == p + 13 + Len(community)
        postId    == RunAt(u, q + 10, "w")
        e         == q + 10 + Len(postId)
    IN  /\ OccursAt(u, "reddit.com/r/", p)
        /\ community # ""
        /\ OccursAt(u, "/comments/", q)
        /\ postId # ""
        /\ e = PathEnd(u, e) \/ CharAt(u, e) = "/"

(* The community, the post id and the trailing segments of the one stem    *)
(* that stands at position p of u.                                         *)
RedditParts(u, p) ==
    LET community == RunAt(u, p + 13, "w-")
        q         == p + 13 + Len(community)
        postId    == RunAt(u, q + 10, "w")
    IN  [community |-> community, postId |-> postId,
         trailing |-> SegmentsFrom(u, q + 10 + Len(postId))]

(* u is a discussion URL with well-formed trailing segments: no segment is *)
(* empty.                                                                  *)
IsDiscussionUrl(u) ==
    \E p \in 1..Len(u) :
        /\ RedditStemAt(u, p)
        /\ \A r \in 1..(p - 1) : ~RedditStemAt(u, r)
        /\ \A k \in DOMAIN RedditParts(u, p).trailing : RedditParts(u, p).trailing[k] # ""

DiscussionParts(u) == RedditParts(u, CHOOSE p \in 1..Len(u) : RedditStemAt(u, p))

(* C11 as stated: on a discussion URL extractRedditInfo returns the         *)
(* community and the post id; with exactly one trailing segment commentId  *)
(* is absent, and with two trailing segments commentId equals the second.  *)
C11_SecondSegmentIsCommentId ==
    (call = "extractRedditInfo" /\ IsDiscussionUrl(url)) =>
        LET d == DiscussionParts(url)
        IN  /\ ret.type = "reddit"
            /\ ret.subreddit = Str(d.community)
            /\ ret.postId = Str(d.postId)
            /\ Len(d.trailing) = 1 => ret.commentId = Undefined
            /\ Len(d.trailing) = 2 => ret.commentId = Str(d.trailing[2])

(* C11 amended: on a discussion URL extractRedditInfo returns the          *)
(* community and the post id; with exactly one trailing segment commentId  *)
(* is absent, whatever the segment; with two trailing segments commentId   *)
(* is the leading run of word characters of the second segment when the    *)
(* first segment holds only word characters and hyphens and that run is    *)
(* not empty, and is absent otherwise.                                     *)
C11_SlugThenCommentRun ==
    (call = "extractRedditInfo" /\ IsDiscussionUrl(url)) =>
        LET d == DiscussionParts(url)
        IN  /\ ret.type = "reddit"
            /\ ret.subreddit = Str(d.community)
            /\ ret.postId = Str(d.postId)
            /\ Len(d.trailing) = 1 => ret.commentId = Undefined
            /\ Len(d.trailing) = 2 =>
                   LET run == RunAt(d.trailing[2], 1, "w")
                   IN  IF AllOf(d.trailing[1], "w-") /\ run # ""
                       THEN ret.commentId = Str(run)
                       ELSE ret.commentId = Undefined

(* A numeric segment alone is taken as the slug. *)
C11_Witness ==
    /\ call = "extractRedditInfo"
    /\ url = "https://www.reddit.com/r/ask-me/comments/1abc/777"
    /\ IsDiscussionUrl(url)
    /\ DiscussionParts(url).trailing = <<"777">>
    /\ ret = [type |-> "reddit", subreddit |-> Str("ask-me"), postId |-> Str("1abc"),
              commentId |-> Undefined]

(* The snippet stem gist.github.com/<owner>/<gistId> stands at position p  *)
(* of u, its gist id running up to a "/" or the path's end.                *)
GistStemAt(u, p) ==
    LET owner  == RunAt(u, p + 16, "w-")
        q      == p + 16 + Len(owner)
        gistId == RunAt(u, q + 1, "w-")
        e      == q + 1 + Len(gistId)
    IN  /\ OccursAt(u, "gist.github.com/", p)
        /\ owner # ""
        /\ CharAt(u, q) = "/"
        /\ gistId # ""
        /\ e = PathEnd(u, e) \/ CharAt(u, e) = "/"

(* The owner, the gist id and the extra segments of the stem that stands   *)
(* at position p of u.                                                     *)
GistParts(u, p) ==
    LET owner  == RunAt(u, p + 16, "w-")
        q      == p + 16 + Len(owner)
        gistId == RunAt(u, q + 1, "w-")
    IN  [owner |-> owner, gistId |-> gistId,
         extra |-> SegmentsFrom(u, q + 1 + Len(gistId))]

(* u is a snippet URL with well-formed extra segments: no segment is empty. *)
IsSnippetUrl(u) ==
    \E p \in 1..Len(u) :
        /\ GistStemAt(u, p)
        /\ \A r \in 1..(p - 1) : ~GistStemAt(u, r)
        /\ \A k \in DOMAIN GistParts(u, p).extra : GistParts(u, p).extra[k] # ""

SnippetParts(u) == GistParts(u, CHOOSE p \in 1..Len(u) : GistStemAt(u, p))

(* C12 as stated: on a snippet URL extractGistInfo returns the third path  *)
(* segment, if any, as filename and the fourth, if any, as revision; one   *)
(* extra segment alone is the filename with revision absent, and with no   *)
(* extra segment both are absent.                                          *)
C12_SegmentsByPosition ==
    (call = "extractGistInfo" /\ IsSnippetUrl(url)) =>
        LET d == SnippetParts(url)
        IN  /\ ret.type = "gist"
            /\ ret.filename = IF Len(d.extra) >= 1 THEN Str(d.extra[1]) ELSE Undefined
            /\ ret.revision = IF Len(d.extra) >= 2 THEN Str(d.extra[2]) ELSE Undefined

(* C12 amended: on a snippet URL extractGistInfo captures by position, and *)
(* each capture is a leading run: filename is the leading run of word      *)
(* characters and hyphens of the third segment; revision is the leading    *)
(* run of word characters of the fourth segment when the third segment     *)
(* holds only word characters and hyphens; a field whose run is empty or   *)
(* whose segment is missing is absent.                                     *)
C12_LeadingRunsByPosition ==
    (call = "extractGistInfo" /\ IsSnippetUrl(url)) =>
        LET d    == SnippetParts(url)
            name == IF Len(d.extra) >= 1 THEN RunAt(d.extra[1], 1, "w-") ELSE ""
            rev  == IF Len(d.extra) >= 2 /\ AllOf(d.extra[1], "w-")
                    THEN RunAt(d.extra[2], 1, "w") ELSE ""
        IN  /\ ret.type = "gist"
            /\ ret.username = Str(d.owner)
            /\ ret.gistId = Str(d.gistId)
            /\ ret.filename = IF name # "" THEN Str(name) ELSE Undefined
            /\ ret.revision = IF rev # "" THEN Str(rev) ELSE Undefined

(* A revision-looking segment alone is reported as the filename. *)
C12_Witness ==
    /\ call = "extractGistInfo"
    /\ url = "https://gist.github.com/bob/deadbeef/abc123"
    /\ IsSnippetUrl(url)
    /\ SnippetParts(url).extra = <<"abc123">>
    /\ ret.filename = Str("abc123")
    /\ ret.revision = Undefined

-----------------------------------------------------------------------------
(* Properties of the settings page                                         *)

(* C13: no auto-save PUT of the preferences is in flight before the load   *)
(* of the stored preferences has finished, so what an auto-save carries    *)
(* was set after the load.                                                 *)
C13_NoAutoSaveDuringLoad ==
    \A i \in DOMAIN puts : puts[i].isAutoSave => load = "done"

(* A handleDeleteAccount call ended in this step without the redirect. *)
DeleteGivenUp == Len(deletes') < Len(deletes) /\ location' = "/settings"

(* C14: a DELETE of the account is sent, and isDeleting set, only in a     *)
(* step taken with deleteConfirmation equal to 'DELETE'; a step that shows *)
(* the warning sends nothing and leaves isDeleting as it was; the sign-out *)
(* and the redirect come only from a call whose response was ok; and a     *)
(* call given up on a failed response or a thrown error resets isDeleting  *)
(* and signs nobody out.                                                   *)
C14_DeleteOnlyWhenConfirmed ==
    [][/\ (Len(deletes') > Len(deletes) \/ (isDeleting' /\ ~isDeleting))
              => deleteConfirmation = "DELETE"
       /\ (toast' = "warning" /\ toast # "warning")
              => /\ deleteConfirmation # "DELETE"
                 /\ UNCHANGED <<isDeleting, deletes, signedOut, location>>
       /\ (signedOut' # signedOut \/ location' # location)
              => \E i \in DOMAIN deletes :
                     /\ deletes[i] = [pc |-> "signingOut", response |-> "ok"]
                     /\ deletes' = Without(deletes, i)
       /\ DeleteGivenUp => (isDeleting' = FALSE /\ UNCHANGED signedOut)
      ]_vars

(* After a refused confirmation the text was corrected and the request     *)
(* sent.                                                                   *)
C14_Witness ==
    /\ Truthy(UserId(mockUser))
    /\ toast = "warning"
    /\ deleteConfirmation = "DELETE"
    /\ isDeleting
    /\ deletes = <<[pc |-> "fetching", response |-> "none"]>>
    /\ ~signedOut
    /\ location = "/settings"

(* C15: the load of the preferences ends on every path, and once it has    *)
(* ended isLoadingPreferences is false: at once without a user, and with a *)
(* user when the fetch has settled with an ok, a 401 or another response   *)
(* or a rejection, and the decoding, if any, has settled.                  *)
C15_LoadingEventuallyCleared ==
    /\ [](load = "done" => ~isLoadingPreferences)
    /\ <>(load = "done" /\ ~isLoadingPreferences)

(* The load has ended for a signed-in user and the page is rendered. *)
C15_Witness ==
    /\ Truthy(UserId(mockUser))
    /\ load = "done"
    /\ Rendered

====
